---- MODULE Spec2Model ----
(***************************************************************************)
(* Selection strategies of llamea/population/population.py:                *)
(*   family_competition_selection_fn  (lines 266-321)                      *)
(*   diversity_awarness_selection_fn  (lines 323-363)                      *)
(*   max_divese_desc_get_parent_fn    (lines 365-404)                      *)
(*   PopulationQueryItem.__init__     (lines 16-27)                        *)
(*   _code_diff_similarity            (lines 208-233)                      *)
(* Each strategy is a pure function of its arguments.  The initial states  *)
(* draw the individuals handed to a strategy from bounded sets, one action *)
(* per strategy applies the whole function to them and records what it     *)
(* returned (or that it raised).                                           *)
(***************************************************************************)
EXTENDS Integers, Sequences, FiniteSets, TLC

\* ------------------------------------------------------------------ bounds
\* numeric fitness values / scores are 0..MaxFit
MaxFit == 2
\* n_parent ranges over 1..MaxNParent
MaxNParent == 3
\* parent_size_threshold ranges over 0..MaxThreshold (the default is 1)
MaxThreshold == 2
\* mean similarities are 0..MaxSim
MaxSim == 2
\* pairwise similarities are 0..MaxPairSim; MaxPairSim is the similarity of a
\* description with itself
MaxPairSim == 3
\* n_offspring ranges over 1..MaxNOffspring
MaxNOffspring == 3
\* a code has 0..MaxLen lines
MaxLen == 3
\* Population.save is called up to MaxSaves times
MaxSaves == 2
\* a population holds up to MaxIndividuals individuals
MaxIndividuals == 1
\* the logger holds the individuals with ids 1..MaxLogged
MaxLogged == 2
\* n_evals ranges over 0..MaxEvals
MaxEvals == 3

\* Individual.fitness of an individual that was never evaluated
None == -1

\* ids of the individuals of the previous population and of the offspring
PopIds == {1, 2}
OffIds == {3, 4}
Ids == PopIds \cup OffIds

VARIABLES
    fitness,                \* id -> Individual.fitness (a number or None)
    error,                  \* id -> TRUE iff Individual.error is not None
    parent_id,              \* id -> Individual.parent_id (a list of ids)
    ind_last_gen,           \* the offspring of the generation (list of ids)
    ind_last_pop,           \* the previous population (list of ids)
    n_parent,               \* argument n_parent
    is_aggressive,          \* argument is_aggressive
    parent_size_threshold,  \* argument parent_size_threshold
    pc,                     \* "ready" | "returned" | "raised"
    fam_selected,           \* offspring id -> _selected_list of its family
    fam_unselected,         \* offspring id -> _unselected_list of its family
    pool_candidate,         \* candidate_set before the conflict rule (l.306)
    pool_substitute,        \* substitute_set before the conflict rule
    candidate_set,          \* candidate_set when the final sort starts
    substitute_set,         \* substitute_set when the final sort starts
    ret,                    \* the returned list
    next_inds,              \* diversity-aware selection: argument next_inds
    last_inds,              \* diversity-aware selection: argument last_inds
    score,                  \* id -> res_handler.eval_result.score
    mean_similarity,        \* id -> its entry of desc_similarity(candidates)[0]
    fitness_threshold,      \* <<numerator, denominator>>, NoThreshold if None
    similarity_computed,    \* diversity-aware selection called desc_similarity
    n_individuals,          \* parent pairing: len(individuals)
    similarity_matrix,      \* desc_similarity(individuals)[1], index -> row
    n_offspring,            \* parent pairing: argument n_offspring
    candidate_idxs,         \* the seeds, in the order they are served
    others,                 \* per seed: the co-parent candidates (l.375)
    check_sets,             \* per seed: the group scheduled for it, {} if none
    parent_set,             \* the groups scheduled
    query_items,            \* the returned list of PopulationQueryItem
    query_item,             \* the item a constructor call returned
    codes,                  \* _code_diff_similarity: the list of codes
    code_similarity_matrix, \* its similarity_matrix, <<i, j>> -> ratio
    code_mean_similarity    \* its mean_similarity, i -> ratio

fcInputs == <<fitness, error, parent_id, ind_last_gen, ind_last_pop>>

fcVars == <<is_aggressive, parent_size_threshold, fam_selected,
            fam_unselected, pool_candidate, pool_substitute, candidate_set,
            substitute_set>>

daInputs == <<next_inds, last_inds, score, mean_similarity>>

mdInputs == <<n_individuals, similarity_matrix>>

mdVars == <<n_offspring, candidate_idxs, others, check_sets, parent_set,
            query_items>>

cdVars == <<codes, code_similarity_matrix, code_mean_similarity>>

\* what the two selection strategies leave alone
pfVars == <<mdInputs, mdVars, query_item, cdVars>>

\* the selection engine
selVars == <<fcInputs, fcVars, daInputs, fitness_threshold, n_parent, pc, ret,
             similarity_computed, pfVars>>

VARIABLES
    population,             \* the Population object: its attributes
    files,                  \* the file system: path -> the blobs written
    dirs,                   \* the directories os.makedirs created
    time_now,                    \* datetime.now(), in seconds
    n_saves,                \* the calls of Population.save so far
    before,                 \* the Population object when the call started
    call,                   \* the last call on the population, its outcome
    loaded,                 \* what the call returned, if it was a load
    written                 \* path -> all_individuals() at its last write

svVars == <<population, files, dirs, time_now, n_saves, before, call,
            loaded, written>>

VARIABLES
    individual_map,         \* IndividualLogger.individual_map, in dict order
    query                   \* the call of get_failed_individuals just made

lgVars == <<individual_map, query>>

VARIABLES
    r_2_list,               \* AlgorithmCritic.r_2_list
    uncertainty_list,       \* AlgorithmCritic.uncertainty_list
    r_2_calls,              \* the last _update_r2 on r_2_list
    uncertainty_calls       \* the last _update_uncertainty on its list

crVars == <<r_2_list, uncertainty_list, r_2_calls, uncertainty_calls>>

VARIABLES
    owner,                  \* the object whose method is wrapped (self)
    critic,                 \* the AlgorithmCritic: n_init, ignore_metric
    events,                 \* what the last wrapped call ran, in order
    passed,                 \* the arguments the wrapped function received
    wrapper_call            \* the last wrapped call and what the caller got

cwVars == <<owner, critic, events, passed, wrapper_call>>

\* what the selection engine leaves alone
exVars == <<svVars, lgVars, crVars, cwVars>>

\* what the population's save / load, the logger, the critic's lists and
\* the wrapper leave alone
svRest == <<selVars, lgVars, crVars, cwVars>>

lgRest == <<selVars, svVars, crVars, cwVars>>

crRest == <<selVars, svVars, lgVars, cwVars>>

cwRest == <<selVars, svVars, lgVars>>

vars == <<selVars, exVars>>

\* ----------------------------------------------------------------- helpers
Range(s) == {s[i] : i \in DOMAIN s}

Take(s, n) == SubSeq(s, 1, IF n < Len(s) THEN n ELSE Len(s))

Min(a, b) == IF a < b THEN a ELSE b

\* sequences over S without repetition, of length 0..2
ParentLists(S) ==
    {<<>>} \cup {<<a>> : a \in S}
           \cup {p \in {<<a, b>> : a \in S, b \in S} : p[1] # p[2]}

\* the orders in which a Python set S of ids may be iterated (the hash order of
\* a set is not determined by its members' values): every list of its members
RECURSIVE SetOrders(_)
SetOrders(S) ==
    IF S = {} THEN {<<>>}
    ELSE UNION {{<<x>> \o l : l \in SetOrders(S \ {x})} : x \in S}

\* ------------------------------------------- sorted(..., reverse=True)
\* key comparison of sorted(): a None key cannot be compared (TypeError), and
\* every element of a list of two or more is compared at least once
SortRaises(ids) ==
    Len(ids) >= 2 /\ \E i \in 1..Len(ids) : fitness[ids[i]] = None

\* position of x once inserted in r (sorted, non-increasing): behind every
\* element whose key is not smaller, so equal keys keep their input order
InsertPos(r, x) ==
    Cardinality({i \in 1..Len(r) : fitness[r[i]] >= fitness[x]})

\* sorted(ids, key=lambda x: all_ind_map[x].fitness, reverse=True): stable,
\* non-increasing
RECURSIVE SortedDesc(_)
SortedDesc(ids) ==
    IF ids = <<>> THEN <<>>
    ELSE LET r == SortedDesc(SubSeq(ids, 1, Len(ids) - 1))
             x == ids[Len(ids)]
             k == InsertPos(r, x)
         IN  SubSeq(r, 1, k) \o <<x>> \o SubSeq(r, k + 1, Len(r))

\* sorted(a_set, key=..., reverse=True): one result per iteration order
SortedSet(S) == {SortedDesc(l) : l \in SetOrders(S)}

SetSortRaises(S) ==
    Cardinality(S) >= 2 /\ \E i \in S : fitness[i] = None

\* list.index(x): the first position of x
IndexOf(s, x) == CHOOSE i \in 1..Len(s) : s[i] = x /\ \A j \in 1..(i - 1) : s[j] # x

\* ------------------------------------------------- _family_selection
\* _selected_list = sorted_ids[:child_index+1]
SelectedListDropsChild(sorted_ids, child_index) ==
    SubSeq(sorted_ids, 1, child_index - 1)

SelectedList(sorted_ids, child_index) ==
    SubSeq(sorted_ids, 1, child_index)

\* _unselected_list = sorted_ids[child_index+1:]
UnselectedListFromChild(sorted_ids, child_index) ==
    SubSeq(sorted_ids, child_index, Len(sorted_ids))

UnselectedList(sorted_ids, child_index) ==
    SubSeq(sorted_ids, child_index + 1, Len(sorted_ids))

\* the competition is skipped for a family with more parents than the threshold
SkipsCompetitionAtThreshold(child, threshold) ==
    Len(parent_id[child]) >= threshold

SkipsCompetition(child, threshold) ==
    Len(parent_id[child]) > threshold

\* _family_selection raises iff it sorts a family holding a None fitness
FamilyRaises(child, threshold) ==
    /\ Len(parent_id[child]) # 0
    /\ ~SkipsCompetition(child, threshold)
    /\ SortRaises(<<child>> \o parent_id[child])

\* <<_selected_list, _unselected_list>>
FamilySelection(child, threshold) ==
    IF Len(parent_id[child]) = 0 THEN <<(<<child>>), <<>>>>
    ELSE LET ind_ids == <<child>> \o parent_id[child] IN
         IF SkipsCompetition(child, threshold) THEN <<ind_ids, <<>>>>
         ELSE LET sorted_ids == SortedDesc(ind_ids)
                  child_index == IndexOf(sorted_ids, child)
              IN  <<SelectedList(sorted_ids, child_index),
                    UnselectedList(sorted_ids, child_index)>>

\* ------------------------------------- _family_competition_selection_fn
\* candidate_set / substitute_set after the loop over ind_last_gen
FamiliesSelected(threshold) ==
    UNION {Range(FamilySelection(c, threshold)[1]) : c \in Range(ind_last_gen)}

FamiliesUnselected(threshold) ==
    UNION {Range(FamilySelection(c, threshold)[2]) : c \in Range(ind_last_gen)}

\* ... and after the loop over ind_last_pop
PoolCandidateFamiliesOnly(threshold) == FamiliesSelected(threshold)

PoolCandidate(threshold) ==
    FamiliesSelected(threshold)
        \cup {p \in Range(ind_last_pop) : p \notin FamiliesUnselected(threshold)}

\* the conflict rule: <<candidate_set, substitute_set>>
ResolveConflictSwapped(cand, subst, aggressive) ==
    LET intersection == cand \cap subst IN
    IF aggressive THEN <<cand, subst \ intersection>>
                  ELSE <<cand \ intersection, subst>>

ResolveConflict(cand, subst, aggressive) ==
    LET intersection == cand \cap subst IN
    IF aggressive THEN <<cand \ intersection, subst>>
                  ELSE <<cand, subst \ intersection>>

\* candidates = _candidates + _substitutes
ConcatSubstitutesFirst(cands, substs) == substs \o cands

Concat(cands, substs) == cands \o substs

\* ind_candidates[:n_parent]
TruncateOneMore(s, n) == Take(s, n + 1)

Truncate(s, n) == Take(s, n)

FamilyCompetitionSelection ==
    /\ pc = "ready"
    /\ \E aggressive \in BOOLEAN, threshold \in 0..MaxThreshold :
         LET fam   == [c \in OffIds |->
                          IF c \in Range(ind_last_gen)
                          THEN FamilySelection(c, threshold)
                          ELSE <<(<<>>), <<>>>>]
             pcand == PoolCandidate(threshold)
             psub  == FamiliesUnselected(threshold)
             res   == ResolveConflict(pcand, psub, aggressive)
             famraise == \E c \in Range(ind_last_gen) : FamilyRaises(c, threshold)
         IN
         \E cands \in SortedSet(res[1]), substs \in SortedSet(res[2]) :
           LET raises == famraise \/ SetSortRaises(res[1])
                                  \/ SetSortRaises(res[2])
               full == Concat(cands, substs)
           IN
           \E n \in 1..MaxNParent :
             /\ is_aggressive' = aggressive
             /\ parent_size_threshold' = threshold
             /\ n_parent' = n
             /\ IF raises
                THEN /\ pc' = "raised"
                     /\ UNCHANGED <<fam_selected, fam_unselected,
                                    pool_candidate, pool_substitute,
                                    candidate_set, substitute_set, ret>>
                ELSE /\ pc' = "returned"
                     /\ fam_selected' = [c \in OffIds |-> fam[c][1]]
                     /\ fam_unselected' = [c \in OffIds |-> fam[c][2]]
                     /\ pool_candidate' = pcand
                     /\ pool_substitute' = psub
                     /\ candidate_set' = res[1]
                     /\ substitute_set' = res[2]
                     /\ ret' = Truncate(full, n)
    /\ UNCHANGED <<fcInputs, daInputs, fitness_threshold,
                   similarity_computed, pfVars, exVars>>

\* ------------------------------------------- diversity_awarness_selection_fn
\* fitness_threshold=None
NoThreshold == <<0, 0>>

Abs(x) == IF x < 0 THEN 0 - x ELSE x

RECURSIVE SumOver(_, _)
SumOver(s, k) == IF k = 0 THEN 0 ELSE s[k] + SumOver(s, k - 1)

Sum(s) == SumOver(s, Len(s))

\* mae_score = mean(|score - mean_score|) as the exact fraction
\* sum(|n*score - sum(scores)|) / n^2
MaeScore(cands) ==
    LET n == Len(cands)
        total == Sum([i \in 1..n |-> score[cands[i]]])
    IN  <<Sum([i \in 1..n |-> Abs(n * score[cands[i]] - total)]), n * n>>

\* abs(score1 - score2) > fitness_threshold
ExceedsThreshold(d, t) == Abs(d) * t[2] > t[1]

\* cmp_inds((ind1, sim1), (ind2, sim2))
CmpIndsNoAbs(a, b, t) ==
    IF (score[a] - score[b]) * t[2] > t[1]
    THEN score[a] - score[b]
    ELSE 0 - (mean_similarity[a] - mean_similarity[b])

CmpInds(a, b, t) ==
    IF ExceedsThreshold(score[a] - score[b], t)
    THEN score[a] - score[b]
    ELSE 0 - (mean_similarity[a] - mean_similarity[b])

\* the `<` of the keys cmp_to_key(cmp_inds) makes
KeyLt(a, b, t) == CmpInds(a, b, t) < 0

Reverse(s) == [i \in 1..Len(s) |-> s[Len(s) + 1 - i]]

\* list.sort of a list shorter than 64: the leading run (count_run) ...
RECURSIVE DescRun(_, _, _)
DescRun(a, k, t) ==
    IF k < Len(a) /\ KeyLt(a[k + 1], a[k], t) THEN DescRun(a, k + 1, t) ELSE k

RECURSIVE AscRun(_, _, _)
AscRun(a, k, t) ==
    IF k < Len(a) /\ ~KeyLt(a[k + 1], a[k], t) THEN AscRun(a, k + 1, t) ELSE k

\* <<length of the run, whether it is strictly descending>>
CountRun(a, t) ==
    IF Len(a) < 2 THEN <<Len(a), FALSE>>
    ELSE IF KeyLt(a[2], a[1], t) THEN <<DescRun(a, 2, t), TRUE>>
         ELSE <<AscRun(a, 2, t), FALSE>>

\* ... then binary insertion (binarysort) of the remaining elements
RECURSIVE BinPos(_, _, _, _, _)
BinPos(a, pivot, l, r, t) ==
    IF l >= r THEN l
    ELSE LET p == l + ((r - l) \div 2) IN
         IF KeyLt(pivot, a[p], t) THEN BinPos(a, pivot, l, p, t)
         ELSE BinPos(a, pivot, p + 1, r, t)

RECURSIVE BinarySort(_, _, _)
BinarySort(a, start, t) ==
    IF start > Len(a) THEN a
    ELSE LET pivot == a[start]
             l == BinPos(a, pivot, 1, start, t)
         IN  BinarySort(SubSeq(a, 1, l - 1) \o <<pivot>>
                            \o SubSeq(a, l, start - 1)
                            \o SubSeq(a, start + 1, Len(a)),
                        start + 1, t)

ListSort(a, t) ==
    LET run == CountRun(a, t)
        a1  == IF run[2]
               THEN Reverse(SubSeq(a, 1, run[1])) \o SubSeq(a, run[1] + 1, Len(a))
               ELSE a
    IN  BinarySort(a1, run[1] + 1, t)

\* sorted(..., key=cmp_to_key(cmp_inds), reverse=True): the list is reversed,
\* sorted ascending and reversed again
SortedAscending(cands, t) == ListSort(cands, t)

SortedByCmp(cands, t) == Reverse(ListSort(Reverse(cands), t))

\* a list argument that is None
NoList == <<None>>

\* `if last_inds:` / `if next_inds:` neither None nor empty
IsGiven(l) == l # NoList /\ l # <<>>

\* candidates = [] ; += last_inds ; += next_inds
CandidatesNextFirst ==
    (IF IsGiven(next_inds) THEN next_inds ELSE <<>>)
        \o (IF IsGiven(last_inds) THEN last_inds ELSE <<>>)

Candidates ==
    (IF IsGiven(last_inds) THEN last_inds ELSE <<>>)
        \o (IF IsGiven(next_inds) THEN next_inds ELSE <<>>)

DiversityAwarenessSelection ==
    /\ pc = "ready"
    /\ \E n \in 1..MaxNParent,
          given \in {NoThreshold} \cup {<<k, 1>> : k \in 0..MaxFit} :
         /\ n_parent' = n
         /\ IF Len(Candidates) <= n
            THEN /\ ret' = Candidates
                 /\ fitness_threshold' = given
                 /\ similarity_computed' = FALSE
            ELSE LET t == IF given = NoThreshold THEN MaeScore(Candidates)
                                                 ELSE given
                 IN  /\ fitness_threshold' = t
                     /\ similarity_computed' = TRUE
                     /\ ret' = Truncate(SortedByCmp(Candidates, t), n)
    /\ pc' = "returned"
    /\ UNCHANGED <<fcInputs, fcVars, daInputs, pfVars, exVars>>

\* ------------------------------------------- max_divese_desc_get_parent_fn
\* the positions of a list of n individuals
Indices(n) == 0..(n - 1)

\* mean_similarity[i] times the common divisor n - 1: the entries of row i of
\* the similarity matrix without the diagonal
MeanSimilarity(i) ==
    Sum([k \in 1..n_individuals |->
            IF k - 1 = i THEN 0 ELSE similarity_matrix[i][k - 1]])

\* similarity_matrix[candidate_idx]
OtherSim(candidate_idx, j) == similarity_matrix[candidate_idx][j]

\* np.argsort(key): the positions in non-decreasing key order; the default
\* kind is not stable, so equal keys come in any order
ArgSort(key, n) ==
    {p \in SetOrders(Indices(n)) :
        \A i, j \in 1..n : i < j => key[p[i]] <= key[p[j]]}

\* mean_similarity as an array
MeanSimilarities == [i \in Indices(n_individuals) |-> MeanSimilarity(i)]

\* np.argsort(mean_similarity)[:n_offspring]
CandidateIdxsOneMore(m) ==
    {Take(p, m + 1) : p \in ArgSort(MeanSimilarities, n_individuals)}

CandidateIdxs(m) ==
    {Take(p, m) : p \in ArgSort(MeanSimilarities, n_individuals)}

\* others = np.argsort(other_sim)[:-1]
Others(candidate_idx) ==
    {SubSeq(p, 1, n_individuals - 1) :
        p \in ArgSort(similarity_matrix[candidate_idx], n_individuals)}

\* itertools.combinations(s, r), in the order it yields them
RECURSIVE Combinations(_, _)
Combinations(s, r) ==
    IF r = 0 THEN <<(<<>>)>>
    ELSE IF Len(s) < r THEN <<>>
    ELSE LET rest == Combinations(Tail(s), r - 1) IN
         [k \in 1..Len(rest) |-> <<s[1]>> \o rest[k]]
             \o Combinations(Tail(s), r)

\* the loop over other_comb: the first check_set not yet in parent_set, {}
\* when the combinations run out
RECURSIVE FirstNewOrLast(_, _, _, _)
FirstNewOrLast(other_comb, k, candidate_idx, pset) ==
    IF k > Len(other_comb) THEN {}
    ELSE LET check_set == {candidate_idx} \cup Range(other_comb[k]) IN
         IF check_set \notin pset \/ k = Len(other_comb) THEN check_set
         ELSE FirstNewOrLast(other_comb, k + 1, candidate_idx, pset)

RECURSIVE FirstNew(_, _, _, _)
FirstNew(other_comb, k, candidate_idx, pset) ==
    IF k > Len(other_comb) THEN {}
    ELSE LET check_set == {candidate_idx} \cup Range(other_comb[k]) IN
         IF check_set \notin pset THEN check_set
         ELSE FirstNew(other_comb, k + 1, candidate_idx, pset)

\* one pass of the loop over candidate_idxs
ServeSeed(st, candidate_idx, oth, n) ==
    LET g == FirstNew(Combinations(oth, n - 1), 1, candidate_idx,
                      st.parent_set)
    IN  [others |-> Append(st.others, oth),
         check_sets |-> Append(st.check_sets, g),
         parent_set |-> IF g = {} THEN st.parent_set
                                  ELSE st.parent_set \cup {g}]

\* the outcomes of the loop after its first k passes
RECURSIVE Served(_, _, _)
Served(seeds, k, n) ==
    IF k = 0 THEN {[others |-> <<>>, check_sets |-> <<>>, parent_set |-> {}]}
    ELSE UNION {{ServeSeed(st, seeds[k], oth, n) : oth \in Others(seeds[k])} :
                   st \in Served(seeds, k - 1, n)}

\* `for i in parent_id` over a frozenset of small ints: increasing order
RECURSIVE Ascending(_)
Ascending(S) ==
    IF S = {} THEN <<>>
    ELSE LET m == CHOOSE x \in S : \A y \in S : x <= y
         IN  <<m>> \o Ascending(S \ {m})

\* PopulationQueryItem(qid, parent, offspring); now is time.time()
PopulationQueryItem(qid, parent, offspring, now) ==
    [qid |-> IF qid = None THEN now ELSE qid,
     generation |-> None,
     is_initialized |-> FALSE,
     type |-> None,
     parent |-> parent,
     offspring |-> offspring]

\* the k-th Individual() a call allocates, given n individuals so far
Individual(n, k) == n + k - 1

\* the query item built for a scheduled group
QueryItemOf(group, k) ==
    [PopulationQueryItem(None, NoList, None, 0) EXCEPT
        !.parent = Ascending(group),
        !.offspring = Individual(n_individuals, k),
        !.qid = 0]

MaxDiverseGetParent ==
    /\ pc = "ready"
    /\ \E n \in 1..MaxNParent, m \in 1..MaxNOffspring :
         \E seeds \in CandidateIdxs(m) :
           \E st \in Served(seeds, Len(seeds), n) :
             \E order \in SetOrders(st.parent_set) :
               /\ n_parent' = n
               /\ n_offspring' = m
               /\ candidate_idxs' = seeds
               /\ others' = st.others
               /\ check_sets' = st.check_sets
               /\ parent_set' = st.parent_set
               /\ query_items' =
                    [k \in 1..Len(order) |-> QueryItemOf(order[k], k)]
    /\ pc' = "returned"
    /\ UNCHANGED <<fcInputs, fcVars, daInputs, fitness_threshold, ret,
                   similarity_computed, mdInputs, query_item, cdVars,
                   exVars>>

\* ----------------------------------------------- PopulationQueryItem()
\* values of time.time()
Clock == {1, 2}

\* the arguments a caller may pass, None being the default of each
QidArgs == {None, 0, 1}

ParentArgs == {NoList} \cup ParentLists(Ids)

OffspringArgs == {None} \cup Ids

NewQueryItem ==
    /\ pc = "ready"
    /\ \E qid \in QidArgs, parent \in ParentArgs, offspring \in OffspringArgs,
          now \in Clock :
         query_item' = PopulationQueryItem(qid, parent, offspring, now)
    /\ pc' = "returned"
    /\ UNCHANGED <<fcInputs, fcVars, daInputs, fitness_threshold, n_parent,
                   ret, similarity_computed, mdInputs, mdVars, cdVars,
                   exVars>>

\* --------------------------------------------------- _code_diff_similarity
\* a code is the list of its lines (code.splitlines()); the distinct lines
Lines == {1, 2, 3}

Max(a, b) == IF a > b THEN a ELSE b

\* the blocks a[i..i+k-1] = b[j..j+k-1] inside a[alo..ahi-1], b[blo..bhi-1]
Blocks(a, b, alo, ahi, blo, bhi) ==
    {m \in (alo..(ahi - 1)) \X (blo..(bhi - 1)) \X (1..(ahi - alo)) :
        /\ m[1] + m[3] <= ahi
        /\ m[2] + m[3] <= bhi
        /\ \A d \in 0..(m[3] - 1) : a[m[1] + d] = b[m[2] + d]}

\* SequenceMatcher.find_longest_match: the longest block, of those the one
\* starting earliest in a, of those the one starting earliest in b
FindLongestMatch(a, b, alo, ahi, blo, bhi) ==
    LET bs == Blocks(a, b, alo, ahi, blo, bhi) IN
    CHOOSE m \in bs :
        \A o \in bs :
            \/ m[3] > o[3]
            \/ m[3] = o[3] /\ m[1] < o[1]
            \/ m[3] = o[3] /\ m[1] = o[1] /\ m[2] <= o[2]

\* SequenceMatcher.get_matching_blocks: the number of lines matched
RECURSIVE MatchedLines(_, _, _, _, _, _)
MatchedLines(a, b, alo, ahi, blo, bhi) ==
    IF alo >= ahi \/ blo >= bhi \/ Blocks(a, b, alo, ahi, blo, bhi) = {} THEN 0
    ELSE LET m == FindLongestMatch(a, b, alo, ahi, blo, bhi) IN
         m[3] + MatchedLines(a, b, alo, m[1], blo, m[2])
              + MatchedLines(a, b, m[1] + m[3], ahi, m[2] + m[3], bhi)

\* the lines difflib.ndiff marks "- " or "+ ": every line of either code
\* that is in no matching block
DiffsCountedOnce(code1, code2) ==
    Len(code1) + Len(code2)
        - MatchedLines(code1, code2, 1, Len(code1) + 1, 1, Len(code2) + 1)

Diffs(code1, code2) ==
    Len(code1) + Len(code2)
        - 2 * MatchedLines(code1, code2, 1, Len(code1) + 1, 1, Len(code2) + 1)

\* code_compare(code1, code2): similarity_ratio as <<numerator, denominator>>
CodeCompare(code1, code2) ==
    LET total_lines == Max(Len(code1), Len(code2)) IN
    IF total_lines = 0 THEN <<1, 1>>
    ELSE <<total_lines - Diffs(code1, code2), total_lines>>

\* np.zeros((len(codes), len(codes)))
Zeros(n) == [p \in (1..n) \X (1..n) |-> <<0, 1>>]

\* one pass of the double loop: the entry and its mirror
WriteEntryOnly(m, cs, i, j) ==
    [m EXCEPT ![<<i, j>>] = CodeCompare(cs[i], cs[j])]

WriteEntry(m, cs, i, j) ==
    LET m1 == [m EXCEPT ![<<i, j>>] = CodeCompare(cs[i], cs[j])]
    IN  [m1 EXCEPT ![<<j, i>>] = m1[<<i, j>>]]

\* the matrix after the first k passes (i outer, j inner)
RECURSIVE Filled(_, _)
Filled(cs, k) ==
    IF k = 0 THEN Zeros(Len(cs))
    ELSE WriteEntry(Filled(cs, k - 1), cs,
                    ((k - 1) \div Len(cs)) + 1, ((k - 1) % Len(cs)) + 1)

\* np.mean of an empty slice
NaN == <<0, 0>>

\* the sum of the first k entries of row i without the diagonal, as a fraction
RECURSIVE RowTotal(_, _, _)
RowTotal(m, i, k) ==
    IF k = 0 THEN <<0, 1>>
    ELSE LET t == RowTotal(m, i, k - 1)
             e == m[<<i, k>>]
         IN  IF k = i THEN t ELSE <<t[1] * e[2] + e[1] * t[2], t[2] * e[2]>>

\* mean_similarity[i]: the mean of row i excluding the diagonal
MeanOfRow(m, n, i) ==
    IF n = 1 THEN NaN
    ELSE LET t == RowTotal(m, i, n) IN <<t[1], t[2] * (n - 1)>>

CodeDiffSimilarity ==
    /\ pc = "ready"
    /\ LET n == Len(codes)
           m == Filled(codes, n * n)
       IN  /\ code_similarity_matrix' = m
           /\ code_mean_similarity' = [i \in 1..n |-> MeanOfRow(m, n, i)]
    /\ pc' = "returned"
    /\ UNCHANGED <<fcInputs, fcVars, daInputs, fitness_threshold, n_parent,
                   ret, similarity_computed, mdInputs, mdVars, query_item,
                   codes, exVars>>

\* ------------------------------------------- Population.save / Population.load
\* a str is the list of its characters; a str argument or attribute that
\* is None
NoStr == <<"None">>

\* str.replace(" ", "").replace(":", "_").replace("/", "_")
RECURSIVE SafeFileName(_)
SafeFileName(name) ==
    IF name = <<>> THEN <<>>
    ELSE LET c == Head(name)
             r == IF c = " " THEN <<>>
                  ELSE IF c \in {":", "/"} THEN <<"_">> ELSE <<c>>
         IN  r \o SafeFileName(Tail(name))

\* needle in hay
Contains(hay, needle) ==
    \E i \in 0..(Len(hay) - Len(needle)) :
        SubSeq(hay, i + 1, i + Len(needle)) = needle

\* os.path.join(dirname, basename)
PathJoin(dirname, basename) ==
    IF dirname = <<>> THEN basename
    ELSE IF dirname[Len(dirname)] = "/" THEN dirname \o basename
    ELSE dirname \o <<"/">> \o basename

\* self.__class__.__name__ of the population saved
ClassName == <<"P">>

\* "Experiments/pop_temp"
DefaultSaveDir ==
    <<"E", "x", "p", "e", "r", "i", "m", "e", "n", "t", "s", "/",
      "p", "o", "p", "_", "t", "e", "m", "p">>

\* datetime.now().strftime("%m%d%H%M%S")
TimeStamp(t) == <<ToString(t)>>

\* Population.__init__: the attributes of a new population
NewPopulation ==
    [name |-> NoStr, get_parent_strategy |-> "None",
     selection_strategy |-> "None", save_dir |-> NoStr,
     save_dir_suffix |-> NoStr, individuals |-> <<>>]

\* all_individuals(): the ids and fitness values, in the order they were added
AllIndividuals(pop) == pop.individuals

\* the first statement of _update_save_dir_if_need
DefaultedSaveDir(pop) ==
    IF pop.save_dir = NoStr THEN [pop EXCEPT !.save_dir = DefaultSaveDir]
    ELSE pop

\* _update_save_dir_if_need at time t, for a population that has a name
UpdateSaveDirIfNeed(pop, t) ==
    LET p == DefaultedSaveDir(pop) IN
    IF p.save_dir_suffix = NoStr
    THEN [p EXCEPT !.save_dir_suffix =
             ClassName \o <<"_">> \o SafeFileName(p.name) \o <<"_">>
                       \o TimeStamp(t)]
    ELSE p

\* _safe_file_name(None) raises AttributeError: in _update_save_dir_if_need
\* when the suffix is still to be made. (A population whose suffix is made
\* has a name, so the second call, on self.name, cannot raise.)
SaveDirRaises(pop) == pop.save_dir_suffix = NoStr /\ pop.name = NoStr

\* the directory save() writes into
DirnameOf(pop, dirname) ==
    IF dirname = NoStr THEN pop.save_dir \o <<"/">> \o pop.save_dir_suffix
    ELSE dirname

\* the file_path of save(filename, dirname, suffix) at time t
FilePath(pop, filename, dirname, suffix, t) ==
    LET dn == DirnameOf(pop, dirname)
        f0 == SafeFileName(IF filename = NoStr THEN pop.name ELSE filename)
        f1 == IF Contains(dn, f0) THEN <<>> ELSE f0
        f2 == IF suffix # NoStr THEN f1 \o suffix ELSE f1
        f3 == IF Len(f2) > 0 THEN <<"_">> \o f2 ELSE f2
    IN  PathJoin(dn, ClassName \o f3 \o <<"_">> \o TimeStamp(t)
                               \o <<".", "p", "k", "l">>)

\* the functions returned by a factory are local objects, which pickle
\* refuses ("Can't pickle local object")
LocalFunctions == {"_family_competition_selection_fn"}

Picklable(pop) ==
    /\ pop.get_parent_strategy \notin LocalFunctions
    /\ pop.selection_strategy \notin LocalFunctions

\* pickle.dump(self, f): the blob names the class and holds the attributes;
\* a dump that fails midway may have written the frames completed so far
PickleDump(pop) == [complete |-> TRUE, class |-> ClassName, state |-> pop]

PartialDump(pop) == [complete |-> FALSE, class |-> ClassName, state |-> pop]

\* pickle.load(f) reads the first blob of the file
PickleLoad(content) == Head(content).state

LoadRaises(content) == content = <<>> \/ ~Head(content).complete

\* open(file_path, "ab") / open(file_path, "wb")
OpenAppend(fs, file_path) ==
    IF file_path \in DOMAIN fs THEN fs ELSE (file_path :> <<>>) @@ fs

OpenTruncate(fs, file_path) == (file_path :> <<>>) @@ fs

\* f.write
Write(fs, file_path, blob) ==
    [fs EXCEPT ![file_path] = Append(fs[file_path], blob)]

\* the arguments (filename, dirname, suffix) of save, None being the
\* default of each, and what the file system does on this call
SaveArgs ==
    {<<NoStr, NoStr, NoStr>>, <<(<<"f">>), NoStr, NoStr>>,
     <<NoStr, (<<"d">>), (<<"s">>)>>}

IoOutcomes == {"ok", "makedirs fails", "open fails", "write fails"}

Seconds == 1..2

Outcome(op, outcome, file_path, logged) ==
    [op |-> op, outcome |-> outcome, file_path |-> file_path,
     logged |-> logged]

Save ==
    /\ n_saves < MaxSaves
    /\ n_saves' = n_saves + 1
    /\ before' = population
    /\ loaded' = NewPopulation
    /\ UNCHANGED svRest
    /\ IF SaveDirRaises(population)
       THEN /\ population' = DefaultedSaveDir(population)
            /\ call' = Outcome("save", "raised", NoStr, FALSE)
            /\ UNCHANGED <<files, dirs, time_now, written>>
       ELSE \E args \in SaveArgs, io \in IoOutcomes :
              LET filename == args[1]
                  dirname == args[2]
                  suffix == args[3]
                  pop == UpdateSaveDirIfNeed(population, time_now)
                  dn == DirnameOf(pop, dirname)
                  file_path == FilePath(pop, filename, dirname, suffix,
                                        time_now)
                  opened == OpenTruncate(files, file_path)
              IN
              /\ population' = pop
              /\ UNCHANGED time_now
              /\ IF io = "makedirs fails"
                 THEN \* os.makedirs is outside the try statement
                      /\ call' = Outcome("save", "raised", NoStr, FALSE)
                      /\ UNCHANGED <<files, dirs, written>>
                 ELSE IF io = "open fails"
                 THEN /\ dirs' = dirs \cup {dn}
                      /\ call' = Outcome("save", "returned", file_path, TRUE)
                      /\ UNCHANGED <<files, written>>
                 ELSE IF io = "write fails" \/ ~Picklable(pop)
                 THEN /\ dirs' = dirs \cup {dn}
                      /\ call' = Outcome("save", "returned", file_path, TRUE)
                      /\ files' \in {opened, Write(opened, file_path,
                                                   PartialDump(pop))}
                      /\ written' =
                           (file_path :> [ok |-> FALSE, individuals |-> <<>>])
                             @@ written
                 ELSE /\ dirs' = dirs \cup {dn}
                      /\ call' = Outcome("save", "returned", file_path, FALSE)
                      /\ files' = Write(opened, file_path, PickleDump(pop))
                      /\ written' =
                           (file_path :>
                              [ok |-> TRUE,
                               individuals |-> AllIndividuals(population)])
                             @@ written

\* the paths a caller may hand to load: None, a file no one wrote, a file
\* written by save
Missing == <<"m">>

Load ==
    /\ \E filepath \in {NoStr, Missing} \cup DOMAIN files :
         IF filepath = NoStr
         THEN \* os.path.exists(None) raises TypeError
              /\ call' = Outcome("load", "raised", filepath, FALSE)
              /\ loaded' = NewPopulation
         ELSE IF filepath \notin DOMAIN files
         THEN \* FileNotFoundError
              /\ call' = Outcome("load", "raised", filepath, FALSE)
              /\ loaded' = NewPopulation
         ELSE IF LoadRaises(files[filepath])
         THEN \* EOFError, UnpicklingError
              /\ call' = Outcome("load", "raised", filepath, FALSE)
              /\ loaded' = NewPopulation
         ELSE /\ call' = Outcome("load", "returned", filepath, FALSE)
              /\ loaded' = PickleLoad(files[filepath])
    /\ before' = population
    /\ UNCHANGED <<population, files, dirs, time_now, n_saves, written,
                   svRest>>

\* add_individual: an evaluated individual joins the population
Fitnesses == {0, 1}

AddIndividual ==
    /\ Len(population.individuals) < MaxIndividuals
    /\ \E f \in Fitnesses :
         population' =
           [population EXCEPT !.individuals =
              Append(@, [id |-> Len(@) + 1, fitness |-> f])]
    /\ call' = Outcome("add_individual", "returned", NoStr, FALSE)
    /\ before' = population
    /\ loaded' = NewPopulation
    /\ UNCHANGED <<files, dirs, time_now, n_saves, written, svRest>>

\* a second passes
Tick ==
    /\ time_now + 1 \in Seconds
    /\ time_now' = time_now + 1
    /\ UNCHANGED <<population, files, dirs, n_saves, before, call, loaded,
                   written, svRest>>

\* ------------------------------------ IndividualLogger.get_failed_individuals
\* error_type=None, and metadata without the key "error_type"
NoType == "None"

NoKey == "missing"

ErrorTypes == {"NameError", "TimeoutError"}

\* what individual_map holds under one id: a dict of an older format, or an
\* Individual with its error, whether its metadata has "deprecated", and its
\* metadata["error_type"]
LegacyEntry(id) ==
    [id |-> id, legacy |-> TRUE, error |-> FALSE, deprecated |-> FALSE,
     error_type |-> NoKey]

LoggedEntries(id) ==
    {LegacyEntry(id)} \cup
    [id : {id}, legacy : {FALSE}, error : BOOLEAN, deprecated : BOOLEAN,
     error_type : {NoKey, "NameError"}]

\* individual_map[individual.id] = individual: a dict keeps the position of
\* a key it already holds
Position(map, id) == CHOOSE k \in 1..Len(map) : map[k].id = id

Put(map, entry) ==
    IF \E k \in 1..Len(map) : map[k].id = entry.id
    THEN [map EXCEPT ![Position(map, entry.id)] = entry]
    ELSE Append(map, entry)

NoQuery ==
    [called |-> FALSE, error_type |-> NoType, outcome |-> "none",
     failed_individuals |-> <<>>]

LogIndividual ==
    /\ \E id \in 1..MaxLogged : \E entry \in LoggedEntries(id) :
         individual_map' = Put(individual_map, entry)
    /\ query' = NoQuery
    /\ UNCHANGED lgRest

\* the loop over the first k items of individual_map: whether it raised
\* KeyError, and failed_individuals so far (as ids)
RECURSIVE FailedLoop(_, _, _)
FailedLoop(map, error_type, k) ==
    IF k = 0 THEN [raised |-> FALSE, failed_individuals |-> <<>>]
    ELSE LET r == FailedLoop(map, error_type, k - 1)
             individual == map[k]
         IN
         IF r.raised THEN r
         ELSE IF individual.legacy THEN r
         ELSE IF ~individual.error \/ individual.deprecated THEN r
         ELSE IF error_type = NoType
         THEN [r EXCEPT !.failed_individuals = Append(@, individual.id)]
         ELSE IF individual.error_type = NoKey
         THEN [r EXCEPT !.raised = TRUE]
         ELSE IF individual.error_type = error_type
         THEN [r EXCEPT !.failed_individuals = Append(@, individual.id)]
         ELSE r

GetFailedIndividuals ==
    /\ \E error_type \in {NoType} \cup ErrorTypes :
         LET r == FailedLoop(individual_map, error_type, Len(individual_map))
         IN  query' =
               [called |-> TRUE, error_type |-> error_type,
                outcome |-> IF r.raised THEN "raised" ELSE "returned",
                failed_individuals |->
                  IF r.raised THEN <<>> ELSE r.failed_individuals]
    /\ UNCHANGED <<individual_map, lgRest>>

\* ------------------------- AlgorithmCritic._update_r2 / _update_uncertainty
\* np.nan in a metric list; the metric values themselves
NanEntry == -2

Metrics == {0, 1}

\* [np.nan] * n_fill: the empty list for n_fill <= 0
Nans(n_fill) == [k \in 1..n_fill |-> NanEntry]

\* the update with a fill of n_new_points entries
UpdatedOneMore(target_list, value, n_evals) ==
    LET n_new_points == IF Len(target_list) > 0
                        THEN n_evals - Len(target_list)
                        ELSE n_evals
    IN  Append(target_list \o Nans(n_new_points), value)

\* the body the two methods share: target_list after the call
Updated(target_list, value, n_evals) ==
    LET n_new_points == IF Len(target_list) > 0
                        THEN n_evals - Len(target_list)
                        ELSE n_evals
        n_fill == n_new_points - 1
    IN  Append(target_list \o Nans(n_fill), value)

NoCalls ==
    [called |-> FALSE, n_evals |-> 0, value |-> 0, len_before |-> 0,
     increasing |-> TRUE]

\* the record of a call: its arguments, the length it found, and whether
\* n_evals was >= 1 and greater than in every call before
Called(calls, target_list, value, n_evals) ==
    [called |-> TRUE, n_evals |-> n_evals, value |-> value,
     len_before |-> Len(target_list),
     increasing |-> calls.increasing /\ n_evals >= 1
                    /\ (calls.called => n_evals > calls.n_evals)]

UpdateR2 ==
    /\ Len(r_2_list) <= MaxEvals
    /\ \E r_squared \in Metrics, n_evals \in 0..MaxEvals :
         /\ r_2_list' = Updated(r_2_list, r_squared, n_evals)
         /\ r_2_calls' = Called(r_2_calls, r_2_list, r_squared, n_evals)
    /\ UNCHANGED <<uncertainty_list, uncertainty_calls, crRest>>

UpdateUncertainty ==
    /\ Len(uncertainty_list) <= MaxEvals
    /\ \E uncertainty \in Metrics, n_evals \in 0..MaxEvals :
         /\ uncertainty_list' = Updated(uncertainty_list, uncertainty, n_evals)
         /\ uncertainty_calls' =
              Called(uncertainty_calls, uncertainty_list, uncertainty, n_evals)
    /\ UNCHANGED <<r_2_list, r_2_calls, crRest>>

\* ------------------------------------------------------------ critic_wrapper
\* the methods an optimizer wraps, the positional arguments of a call, and
\* what the wrapped function and the critic's update do on this call
FuncNames == {"_update_eval_points", "_fit_model", "_select_next_points"}

ArgLists == {<<"new_X", "new_y">>, <<"new_X">>}

NoArgs == <<"not called">>

UpdateOutcomes ==
    {"ok", "raises in _get_model_r2", "raises in _get_model_uncertainty"}

\* hasattr(self, "n_init") is False
NoAttr == 0

NoWrapperCall ==
    [called |-> FALSE, func |-> "none", args |-> NoArgs,
     func_raises |-> FALSE, outcome |-> "none", value |-> "none"]

WrapperCall(func, args, func_raises, outcome, value) ==
    [called |-> TRUE, func |-> func, args |-> args,
     func_raises |-> func_raises, outcome |-> outcome, value |-> value]

\* lines 69-72: the critic found on self, once n_init is copied to it
Injected ==
    IF critic.n_init = 0 /\ owner.n_init # NoAttr
    THEN [critic EXCEPT !.n_init = owner.n_init]
    ELSE critic

\* _injected_critic is not None and not _injected_critic.ignore_metric
Active == owner.injected_critic = "critic" /\ ~critic.ignore_metric

\* update_after_model_fit(model, n_evals, new_X, new_y): the lists after
\* it returned or raised
UpdateAfterModelFit ==
    \E update \in UpdateOutcomes, n_evals \in 1..MaxEvals,
       r_squared \in Metrics, uncertainty \in Metrics :
      /\ IF update = "raises in _get_model_r2"
         THEN UNCHANGED <<r_2_list, r_2_calls>>
         ELSE /\ r_2_list' = Updated(r_2_list, r_squared, n_evals)
              /\ r_2_calls' =
                   Called(r_2_calls, r_2_list, r_squared, n_evals)
      /\ IF update # "ok"
         THEN UNCHANGED <<uncertainty_list, uncertainty_calls>>
         ELSE /\ uncertainty_list' =
                   Updated(uncertainty_list, uncertainty, n_evals)
              /\ uncertainty_calls' =
                   Called(uncertainty_calls, uncertainty_list, uncertainty,
                          n_evals)

InjectedWrapper ==
    /\ Len(r_2_list) <= MaxEvals
    /\ Len(uncertainty_list) <= MaxEvals
    /\ \E func \in FuncNames, args \in ArgLists, func_raises \in BOOLEAN :
         IF owner.injected_critic = "None"
         THEN \* None.n_init raises AttributeError before func is called
              /\ wrapper_call' = WrapperCall(func, args, func_raises,
                                             "raised", "AttributeError")
              /\ events' = <<>>
              /\ passed' = NoArgs
              /\ UNCHANGED <<critic, crVars>>
         ELSE
         LET before_func ==
               IF Active /\ func = "_update_eval_points" /\ Len(args) >= 2
               THEN <<"update_after_eval">> ELSE <<>>
             after_func ==
               IF Active /\ func = "_fit_model" /\ ~func_raises
                  /\ Len(args) >= 2
               THEN <<"update_after_model_fit">> ELSE <<>>
         IN
         /\ critic' = IF owner.injected_critic = "critic" THEN Injected
                      ELSE critic
         /\ events' = before_func \o <<"func">> \o after_func
         /\ passed' = args
         /\ wrapper_call' =
              IF func_raises
              THEN WrapperCall(func, args, func_raises, "raised", "FuncError")
              ELSE WrapperCall(func, args, func_raises, "returned", "res")
         /\ IF after_func = <<>> THEN UNCHANGED crVars
            ELSE UpdateAfterModelFit
    /\ UNCHANGED <<owner, cwRest>>

\* ------------------------------------------------------------ initial states
NoResult ==
    /\ pc = "ready"
    /\ n_parent = 1
    /\ is_aggressive = TRUE
    /\ parent_size_threshold = 1
    /\ fam_selected = [c \in OffIds |-> <<>>]
    /\ fam_unselected = [c \in OffIds |-> <<>>]
    /\ pool_candidate = {}
    /\ pool_substitute = {}
    /\ candidate_set = {}
    /\ substitute_set = {}
    /\ ret = <<>>
    /\ fitness_threshold = NoThreshold
    /\ similarity_computed = FALSE

\* no family-competition inputs / no diversity-aware inputs
NoFcInputs ==
    /\ ind_last_pop = <<>>
    /\ ind_last_gen = <<>>
    /\ fitness = [i \in Ids |-> 0]
    /\ error = [i \in Ids |-> FALSE]
    /\ parent_id = [i \in Ids |-> <<>>]

NoDaInputs ==
    /\ next_inds = <<>>
    /\ last_inds = <<>>
    /\ score = [i \in Ids |-> 0]
    /\ mean_similarity = [i \in Ids |-> 0]

\* no parent pairing asked for, no query item constructed, no codes compared
Idx == 0..3

NoMdInputs ==
    /\ n_individuals = 0
    /\ similarity_matrix = [i \in Idx |-> [j \in Idx |-> 0]]

NoMdResult ==
    /\ n_offspring = 1
    /\ candidate_idxs = <<>>
    /\ others = <<>>
    /\ check_sets = <<>>
    /\ parent_set = {}
    /\ query_items = <<>>

NoQueryItem ==
    query_item = [qid |-> None, generation |-> None, is_initialized |-> FALSE,
                  type |-> None, parent |-> NoList, offspring |-> None]

NoCodes ==
    /\ codes = <<>>
    /\ code_similarity_matrix = Zeros(0)
    /\ code_mean_similarity = <<>>

NoPairing == NoMdInputs /\ NoMdResult

\* nothing saved or loaded
NoPersistence ==
    /\ population = NewPopulation
    /\ files = <<>>
    /\ dirs = {}
    /\ time_now = 1
    /\ n_saves = 0
    /\ before = NewPopulation
    /\ call = Outcome("none", "none", NoStr, FALSE)
    /\ loaded = NewPopulation
    /\ written = <<>>

\* nothing logged
NoLogger ==
    /\ individual_map = <<>>
    /\ query = NoQuery

\* AlgorithmCritic.__init__: no metric recorded
NoCritic ==
    /\ r_2_list = <<>>
    /\ uncertainty_list = <<>>
    /\ r_2_calls = NoCalls
    /\ uncertainty_calls = NoCalls

\* no method wrapped, no critic attached
NoWrapper ==
    /\ owner = [injected_critic |-> "absent", n_init |-> NoAttr]
    /\ critic = [n_init |-> 0, ignore_metric |-> FALSE]
    /\ events = <<>>
    /\ passed = NoArgs
    /\ wrapper_call = NoWrapperCall

NoServices == NoPersistence /\ NoLogger /\ NoCritic /\ NoWrapper

\* the selection engine is not called
NoSelection ==
    /\ NoFcInputs /\ NoDaInputs /\ NoResult /\ NoPairing /\ NoQueryItem
    /\ NoCodes

\* offspring not handed to the call keep the defaults of a fresh Individual
Generations == {<<>>, <<3>>, <<3, 4>>}

\* The strategies only compare fitness values with one another, so the values
\* are drawn up to their order: the values in use are 0..k for some k.
NoGaps(f) ==
    \A v \in 1..MaxFit :
        (\E i \in Ids : f[i] = v) => (\E j \in Ids : f[j] = v - 1)

\* evaluated individuals without failures
Init ==
    /\ ind_last_pop = <<1, 2>>
    /\ ind_last_gen \in Generations
    /\ fitness \in [Ids -> 0..MaxFit]
    /\ \A i \in OffIds \ Range(ind_last_gen) : fitness[i] = 0
    /\ NoGaps(fitness)
    /\ error = [i \in Ids |-> FALSE]
    /\ parent_id \in [Ids -> ParentLists(PopIds)]
    /\ \A i \in Ids \ Range(ind_last_gen) : parent_id[i] = <<>>
    /\ NoDaInputs
    /\ NoResult /\ NoServices
    /\ NoPairing /\ NoQueryItem /\ NoCodes

Next == FamilyCompetitionSelection

Spec == Init /\ [][Next]_vars

\* inputs among which at least one individual failed (error is not None) or
\* has no fitness (None); a failed individual may carry any fitness
InitFailed ==
    /\ ind_last_pop = <<1, 2>>
    /\ ind_last_gen \in {<<>>, <<3>>}
    /\ fitness \in [Ids -> {None} \cup 0..MaxFit]
    /\ \A i \in OffIds \ Range(ind_last_gen) : fitness[i] = 0
    /\ NoGaps(fitness)
    /\ error \in [Ids -> BOOLEAN]
    /\ \A i \in OffIds \ Range(ind_last_gen) : error[i] = FALSE
    /\ \E i \in Range(ind_last_gen) \cup Range(ind_last_pop) :
         error[i] \/ fitness[i] = None
    /\ parent_id \in [Ids -> ParentLists(PopIds)]
    /\ \A i \in Ids \ Range(ind_last_gen) : parent_id[i] = <<>>
    /\ NoDaInputs
    /\ NoResult /\ NoServices
    /\ NoPairing /\ NoQueryItem /\ NoCodes

SpecFailed == InitFailed /\ [][Next]_vars

\* cmp_inds only reads the sign of a similarity difference, so the mean
\* similarities are drawn up to their order
NoSimGaps(m) ==
    \A v \in 1..MaxSim :
        (\E i \in Ids : m[i] = v) => (\E j \in Ids : m[j] = v - 1)

\* the lists handed to diversity-aware selection: None, empty, or up to
\* three individuals in all; <<1>> as next_inds repeats a member of last_inds
LastInds == {NoList, <<>>, <<1>>, <<1, 2>>}

NextInds == {NoList, <<>>, <<3>>, <<1>>}

InitDiversity ==
    /\ last_inds \in LastInds
    /\ next_inds \in NextInds
    /\ score \in [Ids -> 0..MaxFit]
    /\ mean_similarity \in [Ids -> 0..MaxSim]
    /\ \A i \in Ids \ Range(Candidates) :
         score[i] = 0 /\ mean_similarity[i] = 0
    /\ NoSimGaps(mean_similarity)
    /\ NoFcInputs
    /\ NoResult /\ NoServices
    /\ NoPairing /\ NoQueryItem /\ NoCodes

NextDiversity == DiversityAwarenessSelection

SpecDiversity == InitDiversity /\ [][NextDiversity]_vars

\* the individuals handed to the parent strategy: 0..4 of them, with a
\* symmetric similarity matrix whose diagonal is the self-similarity
\* MaxPairSim; an off-diagonal MaxPairSim is a pair of identical descriptions
PopulationSizes == 0..4

Pairs(n) == {p \in Indices(n) \X Indices(n) : p[1] < p[2]}

MatrixOf(u, n) ==
    [i \in Idx |-> [j \in Idx |->
        IF i = j THEN MaxPairSim
        ELSE IF i < n /\ j < n THEN u[<<Min(i, j), Max(i, j)>>] ELSE 0]]

SimilarityMatrices(n) == {MatrixOf(u, n) : u \in [Pairs(n) -> 0..MaxPairSim]}

\* descriptions pairwise different, and no two individuals equally similar
\* to a third
DistinctRows(m, n) ==
    \A i, j, k \in Indices(n) :
        /\ i # j => m[i][j] < MaxPairSim
        /\ (i # j /\ i # k /\ j # k) => m[i][j] # m[i][k]

\* up to three individuals with any similarities, four with distinct ones
InitPairing ==
    /\ n_individuals \in PopulationSizes
    /\ similarity_matrix \in SimilarityMatrices(n_individuals)
    /\ n_individuals > 3 => DistinctRows(similarity_matrix, n_individuals)
    /\ NoMdResult
    /\ NoFcInputs /\ NoDaInputs /\ NoResult /\ NoServices /\ NoQueryItem
    /\ NoCodes

NextPairing == MaxDiverseGetParent

SpecPairing == InitPairing /\ [][NextPairing]_vars

\* before a query item is constructed
InitQueryItem ==
    /\ NoFcInputs /\ NoDaInputs /\ NoResult /\ NoServices /\ NoPairing
    /\ NoQueryItem /\ NoCodes

NextQueryItem == NewQueryItem

SpecQueryItem == InitQueryItem /\ [][NextQueryItem]_vars

\* the list of codes handed to _code_diff_similarity: up to two codes of up
\* to MaxLen lines each
CodeTexts == UNION {[1..l -> Lines] : l \in 0..MaxLen}

InitCodes ==
    /\ codes \in {<<>>} \cup {<<a>> : a \in CodeTexts}
                       \cup {<<a, b>> : a \in CodeTexts, b \in CodeTexts}
    /\ code_similarity_matrix = Zeros(0)
    /\ code_mean_similarity = <<>>
    /\ NoFcInputs /\ NoDaInputs /\ NoResult /\ NoServices /\ NoPairing
    /\ NoQueryItem

NextCodes == CodeDiffSimilarity

SpecCodes == InitCodes /\ [][NextCodes]_vars

\* a population as an experiment sets it up: with or without a name and a
\* save_dir, with the parent strategy and one of the two selection
\* strategies of this module
NameTexts == {NoStr, <<"p">>, <<"a", " ", ":">>}

SaveDirs == {NoStr, <<"d">>}

Strategies ==
    {<<"max_divese_desc_get_parent_fn", "diversity_awarness_selection_fn">>,
     <<"max_divese_desc_get_parent_fn", "_family_competition_selection_fn">>}

InitPersist ==
    /\ population \in
         {[NewPopulation EXCEPT !.name = n, !.save_dir = d,
                                !.get_parent_strategy = st[1],
                                !.selection_strategy = st[2]] :
            n \in NameTexts, d \in SaveDirs, st \in Strategies}
    /\ files = <<>>
    /\ dirs = {}
    /\ time_now = 1
    /\ n_saves = 0
    /\ before = NewPopulation
    /\ call = Outcome("none", "none", NoStr, FALSE)
    /\ loaded = NewPopulation
    /\ written = <<>>
    /\ NoSelection /\ NoLogger /\ NoCritic /\ NoWrapper

NextPersist == AddIndividual \/ Tick \/ Save \/ Load

SpecPersist == InitPersist /\ [][NextPersist]_vars

\* a logger to which nothing was logged yet
InitLogger ==
    NoSelection /\ NoPersistence /\ NoLogger /\ NoCritic /\ NoWrapper

NextLogger == LogIndividual \/ GetFailedIndividuals

SpecLogger == InitLogger /\ [][NextLogger]_vars

\* a critic as AlgorithmCritic.__init__ leaves it
InitCritic ==
    NoSelection /\ NoPersistence /\ NoLogger /\ NoCritic /\ NoWrapper

NextCritic == UpdateR2 \/ UpdateUncertainty

SpecCritic == InitCritic /\ [][NextCritic]_vars

\* an optimizer with or without the attribute _injected_critic (which may
\* hold None) and with or without n_init; a critic as constructed, or with
\* ignore_metric set
Owners ==
    [injected_critic : {"absent", "None", "critic"}, n_init : {NoAttr, 2}]

Critics == [n_init : {0}, ignore_metric : BOOLEAN]

InitWrapper ==
    /\ owner \in Owners
    /\ critic \in Critics
    /\ owner.injected_critic # "critic" => ~critic.ignore_metric
    /\ events = <<>>
    /\ passed = NoArgs
    /\ wrapper_call = NoWrapperCall
    /\ NoSelection /\ NoPersistence /\ NoLogger /\ NoCritic

NextWrapper == InjectedWrapper

SpecWrapper == InitWrapper /\ [][NextWrapper]_vars

\* ======================================================================
\* Properties of family-competition selection (checked under Spec)
\* ======================================================================
NonIncreasing(s) ==
    \A i, j \in 1..Len(s) : i < j => fitness[s[i]] >= fitness[s[j]]

NoDuplicates(s) ==
    \A i, j \in 1..Len(s) : i # j => s[i] # s[j]

Family(c) == {c} \cup Range(parent_id[c])

\* the offspring's family went through the competition
Competes(c) ==
    /\ c \in Range(ind_last_gen)
    /\ Len(parent_id[c]) >= 1
    /\ Len(parent_id[c]) <= parent_size_threshold

\* C1: for an offspring with 1..parent_size_threshold parents (all among the
\* inputs), _selected_list followed by _unselected_list is the family ranked
\* by fitness, non-increasing; the selected list ends with the offspring, so
\* it is the offspring plus the parents ranked above it, and the unselected
\* list is the parents ranked below it.  An offspring without parents is
\* selected alone and nothing is substituted.
C1_FamilyRanking ==
    pc = "returned" =>
      \A c \in Range(ind_last_gen) :
        /\ Len(parent_id[c]) = 0 =>
             fam_selected[c] = <<c>> /\ fam_unselected[c] = <<>>
        /\ Competes(c) =>
             LET sel == fam_selected[c]
                 uns == fam_unselected[c]
                 ranking == sel \o uns
             IN  /\ Range(ranking) = Family(c)
                 /\ NoDuplicates(ranking)
                 /\ NonIncreasing(ranking)
                 /\ Len(sel) >= 1 /\ sel[Len(sel)] = c
                 /\ Range(uns) \subseteq Range(parent_id[c])
                 /\ \A p \in Range(parent_id[c]) :
                      /\ fitness[p] > fitness[c] => p \in Range(sel)
                      /\ fitness[p] < fitness[c] => p \in Range(uns)

\* an offspring with two parents competed: one parent ranks above it and is
\* selected with it, the other ranks below it and is substituted
C1_Witness ==
    /\ pc = "returned"
    /\ Competes(3)
    /\ Len(fam_selected[3]) = 2
    /\ Len(fam_unselected[3]) = 1
    /\ fitness[fam_selected[3][1]] > fitness[3]
    /\ fitness[fam_unselected[3][1]] < fitness[3]

\* C2: the pools before the conflict rule are the union of the families'
\* lists plus the members of the previous population that no family
\* substituted; the rule removes the individuals found in both pools from
\* the candidate pool when is_aggressive and from the substitute pool
\* otherwise; afterwards the pools are disjoint and their union is unchanged.
C2_ConflictRule ==
    pc = "returned" =>
      LET both == pool_candidate \cap pool_substitute IN
      /\ pool_substitute =
           UNION {Range(fam_unselected[c]) : c \in Range(ind_last_gen)}
      /\ pool_candidate =
           UNION {Range(fam_selected[c]) : c \in Range(ind_last_gen)}
             \cup (Range(ind_last_pop) \ pool_substitute)
      /\ is_aggressive =>
           /\ candidate_set = pool_candidate \ both
           /\ substitute_set = pool_substitute
      /\ ~is_aggressive =>
           /\ candidate_set = pool_candidate
           /\ substitute_set = pool_substitute \ both
      /\ candidate_set \cap substitute_set = {}
      /\ candidate_set \cup substitute_set = pool_candidate \cup pool_substitute

\* a parent kept by one family and substituted by another, resolved the
\* conservative way
C2_Witness ==
    /\ pc = "returned"
    /\ ~is_aggressive
    /\ pool_candidate \cap pool_substitute # {}
    /\ pool_candidate \cap pool_substitute \subseteq candidate_set

\* C3: the returned list is the candidates in non-increasing fitness order
\* followed by the substitutes in non-increasing fitness order, cut to its
\* first n_parent entries; its length is min(n_parent, |candidates| +
\* |substitutes|), and a substitute is in it only behind every candidate.
C3_ReturnedOrder ==
    pc = "returned" =>
      /\ \E cs \in SetOrders(candidate_set), ss \in SetOrders(substitute_set) :
           /\ NonIncreasing(cs)
           /\ NonIncreasing(ss)
           /\ ret = Take(cs \o ss, n_parent)
      /\ Len(ret) = Min(n_parent,
                        Cardinality(candidate_set) + Cardinality(substitute_set))
      /\ Len(ret) <= n_parent
      /\ \A i \in 1..Len(ret) :
           ret[i] \in substitute_set =>
             candidate_set \subseteq {ret[j] : j \in 1..(i - 1)}

\* the list was cut and still holds a substitute behind the candidates
C3_Witness ==
    /\ pc = "returned"
    /\ Len(ret) = n_parent
    /\ n_parent < Cardinality(candidate_set) + Cardinality(substitute_set)
    /\ candidate_set # {}
    /\ \E i \in 1..Len(ret) : ret[i] \in substitute_set

\* one offspring with exactly two parents, both in the previous population
OneOffspringTwoParents ==
    /\ pc = "returned"
    /\ ind_last_gen = <<3>>
    /\ Len(parent_id[3]) = 2
    /\ Range(parent_id[3]) \subseteq Range(ind_last_pop)

StrictlyFitter ==
    OneOffspringTwoParents /\ \A p \in Range(parent_id[3]) : fitness[3] > fitness[p]

StrictlyWeaker ==
    OneOffspringTwoParents /\ \A p \in Range(parent_id[3]) : fitness[3] < fitness[p]

\* C4 as stated: an offspring strictly fitter than both its parents and the
\* two parents are all candidates and none of them is substituted, for every
\* parent_size_threshold and both is_aggressive settings.
C4_AsStated ==
    StrictlyFitter =>
      /\ Family(3) \subseteq candidate_set
      /\ Family(3) \cap substitute_set = {}

\* C4 amended: that holds for parent_size_threshold < 2 (the competition is
\* skipped); for parent_size_threshold >= 2 the offspring alone is a
\* candidate and both parents are substituted.
C4_FitterOffspring ==
    StrictlyFitter =>
      IF parent_size_threshold < 2
      THEN /\ Family(3) \subseteq candidate_set
           /\ Family(3) \cap substitute_set = {}
      ELSE /\ candidate_set \cap Family(3) = {3}
           /\ substitute_set = Range(parent_id[3])

C4_Witness ==
    /\ StrictlyFitter
    /\ parent_size_threshold = 1
    /\ Family(3) \subseteq candidate_set
    /\ substitute_set = {}

\* C5 as stated: an offspring strictly weaker than both its parents is
\* substituted and both parents are candidates.
C5_AsStated ==
    StrictlyWeaker =>
      /\ 3 \in substitute_set
      /\ Range(parent_id[3]) \subseteq candidate_set

\* C5 amended: the offspring and both parents are all candidates and nothing
\* is substituted, for every parent_size_threshold and both is_aggressive
\* settings; the offspring is returned only behind both parents.
C5_WeakerOffspring ==
    StrictlyWeaker =>
      /\ Family(3) \subseteq candidate_set
      /\ substitute_set = {}
      /\ \A i \in 1..Len(ret) :
           ret[i] = 3 => Range(parent_id[3]) \subseteq {ret[j] : j \in 1..(i - 1)}

C5_Witness ==
    /\ StrictlyWeaker
    /\ parent_size_threshold = 2
    /\ 3 \in candidate_set
    /\ Len(ret) = 3
    /\ ret[3] = 3

\* C6: the competition is skipped exactly when the offspring has more parents
\* than parent_size_threshold: then the offspring and all its parents are
\* selected, in the order offspring, parents, and nothing is substituted,
\* whatever the fitness values; an offspring with at most
\* parent_size_threshold parents competes, so a parent less fit than the
\* offspring is substituted.
C6_SkipAboveThreshold ==
    pc = "returned" =>
      \A c \in Range(ind_last_gen) :
        /\ Len(parent_id[c]) > parent_size_threshold =>
             /\ fam_selected[c] = <<c>> \o parent_id[c]
             /\ fam_unselected[c] = <<>>
        /\ Competes(c) =>
             \A p \in Range(parent_id[c]) :
               fitness[p] < fitness[c] => p \in Range(fam_unselected[c])

\* default threshold 1: a two-parent family is kept whole although the
\* offspring is fitter than both parents
C6_Witness ==
    /\ pc = "returned"
    /\ parent_size_threshold = 1
    /\ 3 \in Range(ind_last_gen)
    /\ Len(parent_id[3]) = 2
    /\ \A p \in Range(parent_id[3]) : fitness[p] < fitness[3]
    /\ Len(fam_selected[3]) = 3
    /\ fam_unselected[3] = <<>>

\* ======================================================================
\* Failed and unevaluated individuals (checked under SpecFailed)
\* ======================================================================
Inputs == Range(ind_last_gen) \cup Range(ind_last_pop)

Before(s, a, b) ==
    \E i, j \in 1..Len(s) : i < j /\ s[i] = a /\ s[j] = b

SamePool(a, b) ==
    \/ {a, b} \subseteq candidate_set
    \/ {a, b} \subseteq substitute_set

\* C7 (family-competition selection): a failed individual is never returned
\* ahead of, nor kept in place of, a successfully evaluated individual of
\* the same pool on account of its greater numeric fitness.
C7_FailedNeverAhead ==
    pc = "returned" =>
      \A a, b \in Inputs :
        (/\ error[a] /\ ~error[b]
         /\ fitness[a] # None /\ fitness[b] # None
         /\ fitness[a] > fitness[b]
         /\ SamePool(a, b)) =>
          /\ ~Before(ret, a, b)
          /\ ~(a \in Range(ret) /\ b \notin Range(ret))

\* C8: family-competition selection given an individual whose fitness is
\* None returns, and returns that individual behind every input with a
\* numeric fitness.
C8_NoneFitnessHandled ==
    (pc # "ready" /\ \E a \in Inputs : fitness[a] = None) =>
      /\ pc = "returned"
      /\ \A a, b \in Inputs :
           (fitness[a] = None /\ fitness[b] # None) => ~Before(ret, a, b)

\* ======================================================================
\* Diversity-aware selection (checked under SpecDiversity)
\* ======================================================================
\* the call sorted the pool (it was larger than n_parent)
SortedPool == pc = "returned" /\ Len(Candidates) > n_parent

Pool == Range(Candidates)

\* a ranks above b
Above(a, b) == CmpInds(a, b, fitness_threshold) > 0

NotBelow(a, b) == CmpInds(a, b, fitness_threshold) >= 0

Antisymmetric ==
    \A a, b \in Pool :
        CmpInds(a, b, fitness_threshold) = 0 - CmpInds(b, a, fitness_threshold)

Transitive ==
    \A a, b, c \in Pool : (Above(a, b) /\ Above(b, c)) => Above(a, c)

\* the comparator is a total preorder on the pool
ConsistentOnPool ==
    \A a, b, c \in Pool : (NotBelow(a, b) /\ NotBelow(b, c)) => NotBelow(a, c)

InComparatorOrder(s) ==
    \A i, j \in 1..Len(s) : i < j => NotBelow(s[i], s[j])

\* C9 as stated: for every fitness threshold >= 0 the comparator is
\* antisymmetric and transitive.
C9_AsStated == SortedPool => (Antisymmetric /\ Transitive)

\* C9 amended: the comparator is antisymmetric for every threshold >= 0; it
\* is transitive (a total preorder: score first, lower similarity second)
\* when the threshold is 0, and the list returned is then in comparator
\* order whatever the order of the input.
C9_Comparator ==
    SortedPool =>
      /\ Antisymmetric
      /\ fitness_threshold[1] = 0 =>
           /\ Transitive
           /\ ConsistentOnPool
           /\ InComparatorOrder(ret)

\* threshold 0, one pair decided by score and one by similarity
C9_Witness ==
    /\ SortedPool
    /\ fitness_threshold[1] = 0
    /\ n_parent = 2
    /\ \E c \in Pool \ Range(ret) :
         /\ score[ret[1]] > score[ret[2]]
         /\ score[ret[2]] = score[c]
         /\ mean_similarity[ret[2]] < mean_similarity[c]

\* b's score exceeds a's by more than the threshold
ExceedsBy(b, a) == (score[b] - score[a]) * fitness_threshold[2] > fitness_threshold[1]

FitnessDominates ==
    /\ \A a \in Range(ret) : \A b \in Pool \ Range(ret) : ~ExceedsBy(b, a)
    /\ \A i, j \in 1..Len(ret) : i < j => ~ExceedsBy(ret[j], ret[i])

\* C10 as stated: with a pool larger than n_parent, no pool member left out
\* exceeds a returned one by more than the threshold, and among the
\* returned a score greater by more than the threshold comes first.
C10_AsStated == SortedPool => FitnessDominates

\* C10 amended: that holds when the comparator is a total preorder on the
\* pool (always the case for threshold 0).
C10_FitnessDominates == (SortedPool /\ ConsistentOnPool) => FitnessDominates

\* positive threshold: the first returned beats the second by score, and an
\* individual with a greater score than the second is left out for its
\* similarity
C10_Witness ==
    /\ SortedPool
    /\ ConsistentOnPool
    /\ fitness_threshold[1] > 0
    /\ n_parent = 2
    /\ ExceedsBy(ret[1], ret[2])
    /\ \E b \in Pool \ Range(ret) : score[b] > score[ret[2]]

\* the members of a list argument, none for None
Members(l) == IF l = NoList THEN <<>> ELSE l

\* C11: when len(last_inds) + len(next_inds) <= n_parent, an empty or None
\* list counting 0, diversity-aware selection returns the members of
\* last_inds followed by the members of next_inds, nothing dropped, nothing
\* added, and computes no similarity.
C11_SmallPoolUnchanged ==
    (pc = "returned"
       /\ Len(Members(last_inds)) + Len(Members(next_inds)) <= n_parent) =>
      /\ ret = Members(last_inds) \o Members(next_inds)
      /\ ~similarity_computed

\* next_inds is None and last_inds has exactly n_parent members
C11_Witness ==
    /\ pc = "returned"
    /\ next_inds = NoList
    /\ last_inds = <<1, 2>>
    /\ n_parent = 2
    /\ ret = <<1, 2>>
    /\ ~similarity_computed

\* C12: with a pool larger than n_parent, last_inds and next_inds disjoint
\* and duplicate-free, diversity-aware selection returns exactly n_parent
\* individuals, each a member of the pool and none returned twice.
C12_ExactlyNParent ==
    (SortedPool /\ NoDuplicates(Candidates)) =>
      /\ Len(ret) = n_parent
      /\ Range(ret) \subseteq Pool
      /\ NoDuplicates(ret)
      /\ similarity_computed

\* three candidates, two returned, the one left out being the first listed
C12_Witness ==
    /\ SortedPool
    /\ Candidates = <<1, 2, 3>>
    /\ n_parent = 2
    /\ Len(ret) = 2
    /\ 1 \notin Range(ret)

\* ======================================================================
\* Max-diversity parent pairing (checked under SpecPairing)
\* ======================================================================
Paired == pc = "returned" /\ n_individuals >= n_parent

\* the positions of the seeds that were given a group
Scheduled == {k \in 1..Len(check_sets) : check_sets[k] # {}}

\* the individual dropped from the co-parent candidates of the k-th seed
Excluded(k) == Indices(n_individuals) \ Range(others[k])

\* C13: every query item emitted has a parent list of length n_parent with
\* no individual repeated, and the group of a seed is the seed plus
\* n_parent - 1 individuals other than the seed, for every similarity
\* matrix (ties and identical descriptions included), every n_parent >= 1
\* and every n_offspring.
C13_ExactlyNParentDistinct ==
    pc = "returned" =>
      /\ \A i \in 1..Len(query_items) :
           /\ Len(query_items[i].parent) = n_parent
           /\ NoDuplicates(query_items[i].parent)
      /\ \A k \in Scheduled :
           Cardinality(check_sets[k] \ {candidate_idxs[k]}) = n_parent - 1

\* the groups the k-th seed may be given, in its order
GroupsOf(k) ==
    LET other_comb == Combinations(others[k], n_parent - 1) IN
    [c \in 1..Len(other_comb) |-> {candidate_idxs[k]} \cup Range(other_comb[c])]

\* the groups scheduled for the seeds served before the k-th
Earlier(k) == {check_sets[h] : h \in 1..(k - 1)} \ {{}}

\* C14: no two query items have equal parent sets; the items are the groups
\* scheduled, one each; a seed is given the first group of its order that
\* was not scheduled for an earlier seed, and no group when there is none.
C14_NoDuplicateGroups ==
    pc = "returned" =>
      /\ \A i, j \in 1..Len(query_items) :
           i # j => Range(query_items[i].parent) # Range(query_items[j].parent)
      /\ {Range(query_items[i].parent) : i \in 1..Len(query_items)} = parent_set
      /\ Len(query_items) = Cardinality(parent_set)
      /\ parent_set = {check_sets[k] : k \in Scheduled}
      /\ \A k \in 1..Len(candidate_idxs) :
           LET groups == GroupsOf(k)
               fresh  == {c \in 1..Len(groups) : groups[c] \notin Earlier(k)}
           IN  IF fresh = {} THEN check_sets[k] = {}
               ELSE \E c \in fresh :
                      /\ check_sets[k] = groups[c]
                      /\ \A d \in fresh : c <= d

\* the second seed's preferred group was scheduled for the first seed, and
\* the second seed was given another one
C14_Witness ==
    /\ pc = "returned"
    /\ Len(candidate_idxs) >= 2
    /\ Len(GroupsOf(2)) >= 2
    /\ GroupsOf(2)[1] = check_sets[1]
    /\ check_sets[2] = GroupsOf(2)[2]
    /\ Len(query_items) = 2

\* C15: the seeds are the n_offspring individuals of lowest mean similarity;
\* the individual dropped from a seed's co-parent candidates is the seed;
\* the group of a seed is the seed plus n_parent - 1 others, and when it is
\* the seed's preferred group these are the others least similar to the
\* seed.
C15_SeedsAndGroups ==
    Paired =>
      /\ Len(candidate_idxs) = Min(n_offspring, n_individuals)
      /\ NoDuplicates(candidate_idxs)
      /\ \A a \in Range(candidate_idxs) :
           \A b \in Indices(n_individuals) \ Range(candidate_idxs) :
             MeanSimilarity(a) <= MeanSimilarity(b)
      /\ \A k \in 1..Len(candidate_idxs) :
           LET seed == candidate_idxs[k] IN
           /\ Excluded(k) = {seed}
           /\ k \in Scheduled =>
                /\ seed \in check_sets[k]
                /\ Cardinality(check_sets[k]) = n_parent
                /\ check_sets[k] = GroupsOf(k)[1] =>
                     \A a \in check_sets[k] \ {seed} :
                       \A b \in Indices(n_individuals) \ check_sets[k] :
                         OtherSim(seed, a) <= OtherSim(seed, b)

\* C16: called with fewer than n_parent individuals (none included), the
\* parent strategy raises.
C16_RaisesWhenTooFew ==
    (pc # "ready" /\ n_individuals < n_parent) => pc = "raised"

\* the call of the test: four individuals with pairwise different
\* descriptions, n_parent = 2, n_offspring = 1
TestCall ==
    /\ pc = "returned"
    /\ n_individuals = 4
    /\ \A i, j \in Indices(4) : i # j => similarity_matrix[i][j] < MaxPairSim
    /\ n_parent = 2
    /\ n_offspring = 1

Quota == Cardinality(OffIds)

\* C18: family-competition selection called with an offspring list that is
\* empty or shorter than the quota does not raise and returns at most
\* n_parent individuals, all among its inputs; with an empty offspring list
\* it returns the members of the previous population in non-increasing
\* fitness order, cut to n_parent.
C18_PartialGeneration ==
    (pc # "ready" /\ Len(ind_last_gen) < Quota) =>
      /\ pc = "returned"
      /\ Len(ret) <= n_parent
      /\ Range(ret) \subseteq Inputs
      /\ NoDuplicates(ret)
      /\ ind_last_gen = <<>> =>
           \E s \in SetOrders(Range(ind_last_pop)) :
             NonIncreasing(s) /\ ret = Take(s, n_parent)

\* no offspring arrived; the fitter member of the previous population is
\* listed second and is the one returned
C18_Witness ==
    /\ pc = "returned"
    /\ ind_last_gen = <<>>
    /\ n_parent = 1
    /\ fitness[ind_last_pop[2]] > fitness[ind_last_pop[1]]
    /\ ret = <<ind_last_pop[2]>>

\* ======================================================================
\* PopulationQueryItem (checked under SpecQueryItem)
\* ======================================================================
\* C19: a constructed PopulationQueryItem has an offspring that is not None
\* and a parent list that is not None, whatever the constructor arguments
\* (the defaults included).
C19_OffspringAndParentSet ==
    pc = "returned" =>
      /\ query_item.offspring # None
      /\ query_item.parent # NoList

\* ======================================================================
\* Code-diff similarity (checked under SpecCodes)
\* ======================================================================
\* C20: the matrix _code_diff_similarity returns is symmetric, for every
\* list of codes, also when code_compare(a, b) and code_compare(b, a)
\* differ: every entry off the diagonal is the comparison of the later
\* code with the earlier one.
C20_Symmetric ==
    pc = "returned" =>
      \A i, j \in 1..Len(codes) :
        /\ code_similarity_matrix[<<i, j>>] = code_similarity_matrix[<<j, i>>]
        /\ i <= j =>
             code_similarity_matrix[<<i, j>>] = CodeCompare(codes[j], codes[i])

\* two codes whose line diff counts differently in the two directions
C20_Witness ==
    /\ pc = "returned"
    /\ Len(codes) = 2
    /\ CodeCompare(codes[1], codes[2]) # CodeCompare(codes[2], codes[1])
    /\ code_similarity_matrix[<<1, 2>>] = code_similarity_matrix[<<2, 1>>]

\* a ratio <<numerator, denominator>> of value 1
IsOne(r) == r[2] > 0 /\ r[1] = r[2]

\* C21: for every code x, _code_diff_similarity([x, x]) has every matrix
\* entry equal to 1 and mean similarity [1, 1], also for the code without
\* lines.
C21_IdenticalCodes ==
    (pc = "returned" /\ Len(codes) = 2 /\ codes[1] = codes[2]) =>
      /\ \A p \in (1..2) \X (1..2) : IsOne(code_similarity_matrix[p])
      /\ Len(code_mean_similarity) = 2
      /\ \A i \in 1..2 : IsOne(code_mean_similarity[i])

\* the degenerate case: both codes have zero lines
C21_Witness ==
    /\ pc = "returned"
    /\ codes = <<<<>>, <<>>>>
    /\ code_mean_similarity = <<<<1, 1>>, <<1, 1>>>>

\* C22: every entry of the matrix _code_diff_similarity returns lies in
\* [0, 1], for every list of codes.
C22_EntriesInUnitInterval ==
    pc = "returned" =>
      \A i, j \in 1..Len(codes) :
        /\ 0 <= code_similarity_matrix[<<i, j>>][1]
        /\ code_similarity_matrix[<<i, j>>][1]
             <= code_similarity_matrix[<<i, j>>][2]

\* C23: given a single code or none, _code_diff_similarity returns empty
\* arrays.
C23_SingleItemEmpty ==
    (pc = "returned" /\ Len(codes) <= 1) =>
      /\ code_mean_similarity = <<>>
      /\ code_similarity_matrix = Zeros(0)

\* ======================================================================
\* Elitism of family-competition selection (checked under Spec)
\* ======================================================================
\* C28: for n_parent >= 1 and numeric fitness values, the first individual
\* of the list family-competition selection returns has the maximum fitness
\* over all offspring and members of the previous population, for every
\* parent_size_threshold and both is_aggressive settings, ties included.
C28_Elitist ==
    (pc = "returned" /\ n_parent >= 1) =>
      /\ Len(ret) >= 1
      /\ \A i \in Inputs : fitness[ret[1]] >= fitness[i]

\* a parent of maximum fitness was substituted by an offspring that ties it
C28_Witness ==
    /\ pc = "returned"
    /\ n_parent >= 1
    /\ Len(ret) >= 1
    /\ \E p \in substitute_set :
         /\ \A i \in Inputs : fitness[p] >= fitness[i]
         /\ ret[1] # p
         /\ fitness[ret[1]] = fitness[p]

\* ======================================================================
\* Persistence (checked under SpecPersist)
\* ======================================================================
\* C24: Population.load applied to a file whose last write is a successful
\* Population.save returns a population whose all_individuals() has exactly
\* the ids and fitness values the population had when that save was called,
\* whatever operations came before the save or after it.
C24_RoundTrip ==
    (/\ call.op = "load"
     /\ call.file_path \in DOMAIN written
     /\ written[call.file_path].ok) =>
      /\ call.outcome = "returned"
      /\ AllIndividuals(loaded) = written[call.file_path].individuals

\* the population was saved twice to one file, the second time with an
\* individual, and loaded from it
C24_Witness ==
    /\ call.op = "load"
    /\ call.outcome = "returned"
    /\ n_saves = 2
    /\ DOMAIN files = {call.file_path}
    /\ Len(AllIndividuals(loaded)) = 1

\* C25: Population.save never propagates an exception to its caller: it
\* returns normally whatever prevents the snapshot from being saved.
C25_SaveNeverRaises == call.op = "save" => call.outcome = "returned"

\* C26: Population.save leaves every attribute of the population as it was
\* when the call started, whether the write succeeds or fails.
C26_SaveLeavesStateUnchanged == call.op = "save" => population = before

\* ======================================================================
\* The individual logger (checked under SpecLogger)
\* ======================================================================
\* the ids of the failed, non-deprecated individuals of the given type
RECURSIVE FailedOfType(_, _, _)
FailedOfType(map, error_type, k) ==
    IF k = 0 THEN <<>>
    ELSE LET r == FailedOfType(map, error_type, k - 1) IN
         IF /\ ~map[k].legacy
            /\ map[k].error
            /\ ~map[k].deprecated
            /\ (error_type = NoType \/ map[k].error_type = error_type)
         THEN Append(r, map[k].id) ELSE r

\* C27: get_failed_individuals(error_type=t) returns without raising for
\* every t, also when a failed individual of the map has no "error_type"
\* metadata entry, and returns every failed, non-deprecated individual whose
\* error_type is t.
C27_MissingFieldTolerated ==
    query.called =>
      /\ query.outcome = "returned"
      /\ query.failed_individuals =
           FailedOfType(individual_map, query.error_type,
                        Len(individual_map))

\* ======================================================================
\* The critic's metric lists (checked under SpecCritic)
\* ======================================================================
\* the list is aligned with the evaluation count of its last call
Aligned(target_list, calls) ==
    /\ Len(target_list) = calls.n_evals
    /\ target_list[calls.n_evals] = calls.value
    /\ \A k \in (calls.len_before + 1)..(calls.n_evals - 1) :
         target_list[k] = NanEntry

\* the last call found the list at least n_evals long
Overrun(target_list, calls) ==
    (calls.called /\ calls.n_evals <= calls.len_before) =>
      /\ Len(target_list) = calls.len_before + 1
      /\ Len(target_list) > calls.n_evals
      /\ target_list[Len(target_list)] = calls.value

\* C29: while the n_evals of the calls on a list are >= 1 and strictly
\* increasing, the list's length equals the n_evals of the last call, the
\* recorded value sits at position n_evals (index n_evals - 1) and every
\* skipped position holds NaN; a call whose n_evals is not greater than the
\* current length appends one entry and leaves the list longer than n_evals.
C29_ListsAligned ==
    /\ (r_2_calls.called /\ r_2_calls.increasing) =>
         Aligned(r_2_list, r_2_calls)
    /\ (uncertainty_calls.called /\ uncertainty_calls.increasing) =>
         Aligned(uncertainty_list, uncertainty_calls)
    /\ Overrun(r_2_list, r_2_calls)
    /\ Overrun(uncertainty_list, uncertainty_calls)

\* a second call that skips an evaluation, and a call on the other list
\* that repeats its n_evals
C29_Witness ==
    /\ r_2_calls.called /\ r_2_calls.increasing
    /\ r_2_calls.len_before = 1
    /\ r_2_calls.n_evals = 3
    /\ r_2_list[2] = NanEntry
    /\ uncertainty_calls.called /\ ~uncertainty_calls.increasing
    /\ Len(uncertainty_list) > uncertainty_calls.n_evals

\* ======================================================================
\* The critic wrapper (checked under SpecWrapper)
\* ======================================================================
\* the positions of an event in the last call
At(what) == {k \in 1..Len(events) : events[k] = what}

\* C30: for every call through critic_wrapper the wrapped function is
\* invoked exactly once with the original arguments and its return value
\* (or its exception) is what the caller gets, whether no critic is
\* attached, ignore_metric is set, or the critic's update raises; the
\* update for _update_eval_points runs before the wrapped call and the one
\* for _fit_model after it.
C30_Transparent ==
    wrapper_call.called =>
      /\ Cardinality(At("func")) = 1
      /\ passed = wrapper_call.args
      /\ wrapper_call.outcome =
           IF wrapper_call.func_raises THEN "raised" ELSE "returned"
      /\ wrapper_call.value =
           IF wrapper_call.func_raises THEN "FuncError" ELSE "res"
      /\ \A k \in At("update_after_eval"), f \in At("func") : k < f
      /\ \A k \in At("update_after_model_fit"), f \in At("func") : f < k

====
